---------------------------- MODULE Spec2Model ----------------------------
(***************************************************************************)
(* Amharic dataset tools: TextNormalizer (collector.py), QualityScorer     *)
(* (scorer.py), TextEnhancer (enhancer.py) and the tool handlers of the    *)
(* server (server/main.py).                                                *)
(*                                                                         *)
(* A text is a sequence of Unicode code points.  A float score is an exact *)
(* fraction [n |-> numerator, d |-> denominator]; a score that the code    *)
(* rounds to three decimals is an integer number of thousandths.           *)
(***************************************************************************)
EXTENDS Integers, Sequences, FiniteSets, TLC

\* ------------------------------------------------------------------ bounds
MaxParts == 2
MaxBatch == 2
MaxItems == 4
MaxCalls == 2
MaxTexts == 2
MaxStores == 2
MaxRows == 2

\* -------------------------------------------------------------- characters
SP == 32
NL == 10
BACKSLASH == 92
LETTER_n == 110
AMPERSAND == 38
SEMICOLON == 59
EM_DASH == 8212

\* str.isspace() / the regex class \s on str patterns
SpaceChars ==
    (9..13) \cup (28..32) \cup {133, 160, 5760, 8232, 8233, 8239, 8287, 12288}
    \cup (8192..8202)

IsSpace(c) == c \in SpaceChars

\* the regex class \w on str patterns, for the ASCII, Latin-1 and Ethiopic
\* blocks (no other letters occur in the texts of this model)
IsWordChar(c) ==
    \/ c \in 48..57 \/ c \in 65..90 \/ c = 95 \/ c \in 97..122
    \/ c \in {170, 178, 179, 181, 185, 186} \/ c \in 188..190
    \/ c \in 192..214 \/ c \in 216..246 \/ c \in 248..255
    \/ c \in 4608..4680 \/ c \in 4682..4685 \/ c \in 4688..4694 \/ c = 4696
    \/ c \in 4698..4701 \/ c \in 4704..4744 \/ c \in 4746..4749
    \/ c \in 4752..4784 \/ c \in 4786..4789 \/ c \in 4792..4798 \/ c = 4800
    \/ c \in 4802..4805 \/ c \in 4808..4822 \/ c \in 4824..4880
    \/ c \in 4882..4885 \/ c \in 4888..4954 \/ c \in 4969..4988

\* the class U+1200-U+137F as written in collector.py line 74 (single
\* backslash in a raw string: the Ethiopic block)
EthiopicChars == 4608..4991

\* the class as written in scorer.py line 59 (doubled backslash in a raw
\* string, so no \u escape is formed): it holds '\', 'u', '1', '2', '0', the range '0'-'\',
\* and 'u', '1', '3', '7', 'F'
ScorerCharClass ==
    {BACKSLASH} \cup {117, 49, 50, 48} \cup (48..92) \cup {117, 49, 51, 55, 70}

\* the class a-z, A-Z, 0-9 of line 100 of collector.py
AsciiAlnumChars == (48..57) \cup (65..90) \cup (97..122)

\* clean_amharic_text deletes every character outside U+1200-U+137F,
\* U+0020-U+007F and U+00A0-U+00FF; this is the class of the characters kept
IsKeptChar(c) == c \in 4608..4991 \/ c \in 32..127 \/ c \in 160..255

\* the sentence terminators U+1362, '!' and '?'
TerminatorChars == {4962, 33, 63}

IsTerminator(c) == c \in TerminatorChars

\* ---------------------------------------------------------- str primitives
Last(s) == s[Len(s)]

\* s[i:] (1-based i)
Drop(s, i) == SubSeq(s, i, Len(s))

\* s[:k]
Take(s, k) == SubSeq(s, 1, IF k < Len(s) THEN k ELSE Len(s))

\* pat occurs in s at 1-based index i
MatchAt(s, pat, i) ==
    /\ i >= 1
    /\ i + Len(pat) - 1 <= Len(s)
    /\ \A k \in 1..Len(pat) : s[i + k - 1] = pat[k]

\* str.find: 0-based index of the first occurrence, -1 when absent
MinOf(S) == CHOOSE i \in S : \A j \in S : i <= j

MaxOf(S) == CHOOSE i \in S : \A j \in S : i >= j

\* the first of the 1-based indices hits as a 0-based index, -1 when none
FirstHit(hits) == IF hits = {} THEN -1 ELSE MinOf(hits) - 1

Find(s, pat) == FirstHit({i \in 1..(Len(s) + 1) : MatchAt(s, pat, i)})

\* pat in s
Contains(s, pat) == Find(s, pat) # -1

\* str.strip()
\* s cut down to the span of the indices keep
Span(s, keep) ==
    IF keep = {} THEN <<>> ELSE SubSeq(s, MinOf(keep), MaxOf(keep))

Strip(s) == Span(s, {i \in 1..Len(s) : ~IsSpace(s[i])})

\* str.replace(old, new): leftmost non-overlapping occurrences (old # "")
RECURSIVE Replace(_, _, _)
Replace(s, old, new) ==
    IF Len(s) < Len(old) THEN s
    ELSE IF MatchAt(s, old, 1)
         THEN new \o Replace(Drop(s, Len(old) + 1), old, new)
         ELSE <<s[1]>> \o Replace(Drop(s, 2), old, new)

\* len(re.findall(class, s)) for a class of single characters
CountIn(s, class) == Cardinality({i \in 1..Len(s) : s[i] \in class})

\* \b at the gap before 1-based index i of s (i in 1..Len(s)+1)
WordBoundary(s, i) ==
    LET before == i > 1 /\ IsWordChar(s[i - 1])
        after  == i <= Len(s) /\ IsWordChar(s[i])
    IN  before # after

\* re.sub(r'\b' + re.escape(old) + r'\b', new, s), scanning from index i
RECURSIVE SubWordFrom(_, _, _, _)
SubWordFrom(s, old, new, i) ==
    IF i > Len(s) THEN <<>>
    ELSE IF /\ MatchAt(s, old, i)
            /\ WordBoundary(s, i)
            /\ WordBoundary(s, i + Len(old))
         THEN new \o SubWordFrom(s, old, new, i + Len(old))
         ELSE <<s[i]>> \o SubWordFrom(s, old, new, i + 1)

SubWord(s, old, new) == SubWordFrom(s, old, new, 1)

\* re.search of a terminator followed by $: $ matches at the end and before a final newline
EndsWithTerminator(s) ==
    /\ Len(s) >= 1
    /\ \/ IsTerminator(Last(s))
       \/ Last(s) = NL /\ Len(s) >= 2 /\ IsTerminator(s[Len(s) - 1])

\* the n-th smallest member of a set of indices
NthOf(S, n) == CHOOSE i \in S : Cardinality({j \in S : j < i}) = n - 1

\* the maximal run of characters outside seps that starts at index i of s
RunAt(s, seps, i) ==
    SubSeq(s, i, CHOOSE j \in i..Len(s) :
                     /\ \A k \in i..j : s[k] \notin seps
                     /\ (j = Len(s) \/ s[j + 1] \in seps))

\* the runs that start at the indices starts, in order
RunsFrom(s, seps, starts) ==
    [n \in 1..Cardinality(starts) |-> RunAt(s, seps, NthOf(starts, n))]

\* maximal runs of the characters of s that are not in seps, in order, empty
\* runs dropped
Runs(s, seps) ==
    RunsFrom(s, seps, {i \in 1..Len(s) :
                          s[i] \notin seps /\ (i = 1 \/ s[i - 1] \in seps)})

RECURSIVE SumLen(_)
SumLen(ss) == IF ss = <<>> THEN 0 ELSE Len(ss[1]) + SumLen(Tail(ss))

SelectNonEmpty(ss) == SelectSeq(ss, LAMBDA x : x # <<>>)

\* ------------------------------------------------- exact float arithmetic
RECURSIVE GCD(_, _)
GCD(a, b) == IF b = 0 THEN a ELSE GCD(b, a % b)

Abs(x) == IF x < 0 THEN -x ELSE x

\* n/d with the common factor g taken out
Reduced(n, d, g) == [n |-> n \div g, d |-> d \div g]

\* the fraction n/d (d > 0) in lowest terms
Frac(n, d) == Reduced(n, d, GCD(Abs(n), d))

Zero == Frac(0, 1)
One == Frac(1, 1)

\* a + b over the common denominator l
FAddOver(a, b, l) == Frac(a.n * (l \div a.d) + b.n * (l \div b.d), l)

FAdd(a, b) == FAddOver(a, b, (a.d \div GCD(a.d, b.d)) * b.d)

FSub(a, b) == FAdd(a, [n |-> -b.n, d |-> b.d])

\* a * b with the cross factors g1 of a.n, b.d and g2 of b.n, a.d taken out
FMulOver(a, b, g1, g2) ==
    Frac((a.n \div g1) * (b.n \div g2), (a.d \div g2) * (b.d \div g1))

FMul(a, b) == FMulOver(a, b, GCD(Abs(a.n), b.d), GCD(Abs(b.n), a.d))

\* a / b for b > 0
FDiv(a, b) == FMul(a, [n |-> b.d, d |-> b.n])

FLt(a, b) == FSub(a, b).n < 0
FLeq(a, b) == FSub(a, b).n <= 0
FMax(a, b) == IF FLt(a, b) THEN b ELSE a
FMin(a, b) == IF FLt(b, a) THEN b ELSE a

\* k more decimal digits of (q + r/d): <<quotient, remainder>>
RECURSIVE LongDiv(_, _, _, _)
LongDiv(q, r, d, k) ==
    IF k = 0 THEN <<q, r>>
    ELSE LongDiv(q * 10 + (r * 10) \div d, (r * 10) % d, d, k - 1)

\* the quotient of qr moved to the nearer neighbour, a tie going to the even
\* one
RoundHalfEven(qr, d) ==
    IF 2 * qr[2] < d THEN qr[1]
    ELSE IF 2 * qr[2] > d THEN qr[1] + 1
    ELSE IF qr[1] % 2 = 0 THEN qr[1] ELSE qr[1] + 1

\* round(x, 3) for x >= 0, as a number of thousandths: the nearest
\* thousandth, a tie going to the even one
Round3(x) == RoundHalfEven(LongDiv(x.n \div x.d, x.n % x.d, x.d, 3), x.d)

\* ------------------------------------------------------ AmharicQualityScorer
weights ==
    [amharic_character_ratio |-> Frac(3, 10),
     sentence_structure      |-> Frac(2, 10),
     authenticity            |-> Frac(25, 100),
     complexity              |-> Frac(15, 100),
     coherence               |-> Frac(1, 10)]

\* religious_expressions, cultural_terms, traditional_greetings
authentic_indicators ==
    << << <<4773, 4877, 4826, 4768, 4709, 4628, 4653>>,
          <<4773, 4877, 4826, 4768, 4709, 4628, 4653, 32, 4845, 4632, 4661, 4872, 4757>>,
          <<4773, 4877, 4826, 4768, 4709, 4628, 4653, 32, 4845, 4707, 4653, 4781>> >>,
       << <<4773, 4757, 4673, 4619, 4621>>,
          <<4773, 4757, 4848, 4637, 4757>>,
          <<4768, 4757, 4720, 4661>>,
          <<4773, 4757, 4852, 4725>>,
          <<4900, 4755>>,
          <<4848, 4613, 4755>> >>,
       << <<4773, 4757, 4848, 4637, 4757, 32, 4768, 4848, 4653, 4781>>,
          <<4900, 4755, 32, 4845, 4661, 4901, 4621, 4765>> >> >>

excessive_foreign_terms ==
    << <<4854, 4781, 4720, 4653>>,
       <<4841, 4754, 4712, 4653, 4658, 4722>>,
       <<4782, 4637, 4946, 4720, 4653>>,
       <<4724, 4620, 4714, 4837, 4757>> >>

\* lines 62-65
RatioOf(amharic_chars, total_chars) ==
    IF total_chars = 0 THEN Zero ELSE Frac(amharic_chars, total_chars)

calculate_amharic_character_ratio(text) ==
    IF text = <<>> THEN Zero
    ELSE RatioOf(CountIn(text, ScorerCharClass),
                 Len(Replace(Replace(text, <<SP>>, <<>>),
                             <<BACKSLASH, LETTER_n>>, <<>>)))

\* re.split on runs of terminators, then strip and drop the empty segments
StripEach(parts) == [i \in 1..Len(parts) |-> Strip(parts[i])]

SplitSentences(text) == SelectNonEmpty(StripEach(Runs(text, TerminatorChars)))

\* the test of line 91 on one sentence: the terminator pattern against s + ' '
ProperlyTerminated(s) == EndsWithTerminator(s \o <<SP>>)

LengthScore(avg_length) ==
    IF FLt(avg_length, Frac(30, 1)) THEN FDiv(avg_length, Frac(30, 1))
    ELSE IF FLeq(avg_length, Frac(200, 1)) THEN One
    ELSE FMax(Zero, FSub(One, FDiv(FSub(avg_length, Frac(200, 1)), Frac(300, 1))))

\* lines 102-108
StructureResult(avg_length, termination_ratio) ==
    [avg_sentence_length |-> avg_length,
     properly_terminated |-> termination_ratio,
     structure_score     |->
         FAdd(FMul(LengthScore(avg_length), Frac(7, 10)),
              FMul(termination_ratio, Frac(3, 10)))]

\* lines 80-108, on the sentences of line 78
StructureOf(sentences) ==
    IF sentences = <<>>
    THEN [avg_sentence_length |-> Zero,
          properly_terminated |-> Zero,
          structure_score     |-> Zero]
    ELSE StructureResult(
             Frac(SumLen(sentences), Len(sentences)),
             Frac(Cardinality({i \in 1..Len(sentences) :
                                  ProperlyTerminated(sentences[i])}),
                  Len(sentences)))

evaluate_sentence_structure(text) == StructureOf(SplitSentences(text))

\* number of the entries of a list of expressions that occur in text
CountPresent(expressions, text) ==
    Cardinality({i \in 1..Len(expressions) : Contains(text, expressions[i])})

RECURSIVE SumSeq(_)
SumSeq(ns) == IF ns = <<>> THEN 0 ELSE ns[1] + SumSeq(Tail(ns))

\* line 144
AuthenticityOf(score, max_score) ==
    IF max_score.n > 0 THEN FMin(One, FDiv(score, max_score)) ELSE Zero

\* the number of the authentic expressions that occur in text (lines 124-132)
FoundIn(text) ==
    SumSeq([c \in 1..Len(authentic_indicators) |->
               CountPresent(authentic_indicators[c], text)])

\* the number of the authentic expressions (lines 126 and 133)
IndicatorCount ==
    SumSeq([c \in 1..Len(authentic_indicators) |->
               Len(authentic_indicators[c])])

assess_authenticity(text) ==
    AuthenticityOf(
        FMax(Zero,
             FSub(Frac(FoundIn(text), 10),
                  Frac(5 * CountPresent(excessive_foreign_terms, text), 100))),
        FMax(Frac(IndicatorCount, 10), One))

ComplexityScore(avg_word_length) ==
    IF FLeq(avg_word_length, Frac(2, 1)) THEN FDiv(avg_word_length, Frac(2, 1))
    ELSE IF FLeq(avg_word_length, Frac(6, 1)) THEN One
    ELSE FMax(Zero, FSub(One, FDiv(FSub(avg_word_length, Frac(6, 1)), Frac(10, 1))))

\* lines 169-180
ComplexityResult(avg_word_length) ==
    [avg_word_length  |-> avg_word_length,
     complexity_score |-> ComplexityScore(avg_word_length)]

\* lines 163-180, on the words of line 161
ComplexityOf(words) ==
    IF words = <<>>
    THEN [avg_word_length |-> Zero, complexity_score |-> Zero]
    ELSE ComplexityResult(Frac(SumLen(words), Len(words)))

evaluate_complexity(text) ==
    IF text = <<>>
    THEN [avg_word_length |-> Zero, complexity_score |-> Zero]
    ELSE ComplexityOf(Runs(text, SpaceChars))

\* the default coherence of lines 206 and 239
Coherence == Frac(8, 10)

\* lines 201-207, on amharic_ratio, structure_score, authenticity_score and
\* complexity_score
WeightedSum(ratio, structure, authenticity, complexity) ==
    FAdd(FMul(ratio, weights.amharic_character_ratio),
    FAdd(FMul(structure, weights.sentence_structure),
    FAdd(FMul(authenticity, weights.authenticity),
    FAdd(FMul(complexity, weights.complexity),
         FMul(Coherence, weights.coherence)))))

\* lines 195-207
weighted_score(text) ==
    WeightedSum(calculate_amharic_character_ratio(text),
                evaluate_sentence_structure(text).structure_score,
                assess_authenticity(text),
                evaluate_complexity(text).complexity_score)

\* CategoryLadder with the comparisons turned round
CategoryLadderReversed(x) ==
    IF FLeq(x, Frac(8, 10)) THEN "excellent"
    ELSE IF FLeq(x, Frac(6, 10)) THEN "good"
    ELSE IF FLeq(x, Frac(4, 10)) THEN "fair"
    ELSE "poor"

\* lines 210-217, on the score x the code hands to the ladder
CategoryLadder(x) ==
    IF FLeq(Frac(8, 10), x) THEN "excellent"
    ELSE IF FLeq(Frac(6, 10), x) THEN "good"
    ELSE IF FLeq(Frac(4, 10), x) THEN "fair"
    ELSE "poor"

\* quality_category taken from the rounded score of line 232
quality_category_of_rounded(weighted) ==
    CategoryLadder(Frac(Round3(weighted), 1000))

\* lines 209-217, on the weighted score of lines 201-207
quality_category(weighted) == CategoryLadder(weighted)

\* lines 220-228, on the same four scores
recommendations(ratio, structure, authenticity, complexity) ==
    (IF FLt(ratio, Frac(7, 10))
     THEN <<"Increase Amharic character ratio">> ELSE <<>>)
    \o (IF FLt(structure, Frac(6, 10))
        THEN <<"Improve sentence structure">> ELSE <<>>)
    \o (IF FLt(authenticity, Frac(5, 10))
        THEN <<"Use more authentic Amharic expressions">> ELSE <<>>)
    \o (IF FLt(complexity, Frac(5, 10))
        THEN <<"Adjust text complexity">> ELSE <<>>)

\* text[:100] + "..." when the text is longer than 100, else the text
text_preview(text) ==
    IF Len(text) > 100 THEN Take(text, 100) \o <<46, 46, 46>> ELSE text

\* lines 230-246, on the results of lines 195-207
QualityResult(text, amharic_ratio, structure_metrics, authenticity_score, complexity_metrics, weighted) ==
    [text_preview     |-> text_preview(text),
     overall_score    |-> Round3(weighted),
     quality_category |-> quality_category(weighted),
     component_scores |->
         [amharic_character_ratio |-> Round3(amharic_ratio),
          sentence_structure      |-> Round3(structure_metrics.structure_score),
          authenticity            |-> Round3(authenticity_score),
          complexity              |-> Round3(complexity_metrics.complexity_score),
          coherence               |-> Round3(Coherence)],
     component_metrics |->
         [sentence_structure_details |-> structure_metrics,
          complexity_details         |-> complexity_metrics],
     recommendations  |->
         recommendations(amharic_ratio, structure_metrics.structure_score,
                         authenticity_score, complexity_metrics.complexity_score)]

calculate_overall_quality_score(text) ==
    QualityResult(text,
                  calculate_amharic_character_ratio(text),
                  evaluate_sentence_structure(text),
                  assess_authenticity(text),
                  evaluate_complexity(text),
                  weighted_score(text))

\* -------------------------------------------------------- AmharicRAGEnhancer
vowel_omissions ==
    << <<4773, 4757, 4848, 4637, 4757>>,
       <<4768, 4757, 4720, 4661>>,
       <<4773, 4757, 4852, 4725>> >>

\* pairs <<incomplete form, completed form>>, in the order of definition
common_phrases ==
    << << <<4773, 4757, 4848, 4637, 4757, 32, 4768, 4848, 4653, 4781>>,
          <<4773, 4757, 4848, 4637, 4757, 32, 4768, 4848, 4653, 4781, 63>> >>,
       << <<4768, 4757, 4720, 4661, 32, 4773, 4757, 4852, 4725, 32, 4752, 4613>>,
          <<4768, 4757, 4720, 4661, 32, 4773, 4757, 4852, 4725, 32, 4752, 4613, 63>> >>,
       << <<4773, 4877, 4826, 4768, 4709, 4628, 4653, 32, 4845, 4632, 4661, 4872, 4757>>,
          <<4773, 4877, 4826, 4768, 4709, 4628, 4653, 32, 4845, 4632, 4661, 4872, 4757, 4963>> >> >>

\* pairs <<borrowed, authentic>>, in the order of definition
authentic_replacements ==
    << << <<4854, 4781, 4720, 4653>>, <<4624, 4778, 4637>> >>,
       << <<4614, 4661, 4946, 4723, 4621>>,
          <<4632, 4853, 4611, 4756, 32, 4629, 4635, 4637>> >>,
       << <<4841, 4754, 4712, 4653, 4658, 4722>>,
          <<4725, 4637, 4613, 4653, 4725, 32, 4708, 4725>> >>,
       << <<4782, 4637, 4946, 4720, 4653>>, <<4782, 4637, 4946, 4720, 4653>> >>,
       << <<4724, 4620, 4714, 4837, 4757>>, <<4724, 4620, 4714, 4837, 4757>> >> >>

\* the check of lines 63 and 147: no terminator at the end of the stripped text
LacksTerminalPunctuation(text) == ~EndsWithTerminator(Strip(text))

\* lines 62-69
PunctuationIssues(text) ==
    IF LacksTerminalPunctuation(text)
    THEN << [type        |-> "punctuation",
             description |-> <<"Missing sentence-ending punctuation", <<>> >>,
             position    |-> Len(text),
             suggestion  |-> <<"Add appropriate punctuation", <<>> >>] >>
    ELSE <<>>

\* PhraseIssue without the second test of line 73
PhraseIssueUnlessNothing(text, pattern, suggestion) ==
    IF Contains(text, pattern)
    THEN << [type        |-> "phrase_completion",
             description |-> <<"Incomplete common phrase: ", pattern>>,
             position    |-> Find(text, pattern),
             suggestion  |-> <<"Consider using: ", suggestion>>] >>
    ELSE <<>>

\* lines 72-79, for one entry of the phrase table
PhraseIssue(text, pattern, suggestion) ==
    IF Contains(text, pattern) /\ ~Contains(text, suggestion)
    THEN << [type        |-> "phrase_completion",
             description |-> <<"Incomplete common phrase: ", pattern>>,
             position    |-> Find(text, pattern),
             suggestion  |-> <<"Consider using: ", suggestion>>] >>
    ELSE <<>>

\* lines 71-79, entries k.. of the phrase table
RECURSIVE PhraseIssues(_, _)
PhraseIssues(text, k) ==
    IF k > Len(common_phrases) THEN <<>>
    ELSE PhraseIssue(text, common_phrases[k][1], common_phrases[k][2])
         \o PhraseIssues(text, k + 1)

\* lines 83-89, for one entry of the vowel-omission list
VowelIssue(text, omission) ==
    IF Contains(text, omission)
    THEN << [type        |-> "vowel_omission",
             description |-> <<"Possible vowel omission: ", omission>>,
             position    |-> Find(text, omission),
             suggestion  |-> <<"Verify if vowel is intentionally omitted or missing", <<>> >>] >>
    ELSE <<>>

\* lines 81-89, entries k.. of the vowel-omission list
RECURSIVE VowelIssues(_, _)
VowelIssues(text, k) ==
    IF k > Len(vowel_omissions) THEN <<>>
    ELSE VowelIssue(text, vowel_omissions[k]) \o VowelIssues(text, k + 1)

identify_quality_issues(text) ==
    PunctuationIssues(text) \o PhraseIssues(text, 1) \o VowelIssues(text, 1)

\* lines 106-107, entries k.. of the replacement table, each on the output of
\* the one before
RECURSIVE ApplyReplacements(_, _)
ApplyReplacements(text, k) ==
    IF k > Len(authentic_replacements) THEN text
    ELSE ApplyReplacements(SubWord(text, authentic_replacements[k][1],
                                         authentic_replacements[k][2]), k + 1)

\* lines 110-111
RECURSIVE ApplyPhrases(_, _)
ApplyPhrases(text, k) ==
    IF k > Len(common_phrases) THEN text
    ELSE ApplyPhrases(Replace(text, common_phrases[k][1], common_phrases[k][2]),
                      k + 1)

apply_authenticity_enhancements(text) ==
    ApplyPhrases(ApplyReplacements(text, 1), 1)

\* NeedsPunctuation with the negation of line 147 dropped
NeedsPunctuationInverted(enhanced) ==
    ~LacksTerminalPunctuation(enhanced) /\ Strip(enhanced) # <<>>

\* line 147: the text after the replacement pass gets a terminator appended
NeedsPunctuation(enhanced) ==
    LacksTerminalPunctuation(enhanced) /\ Strip(enhanced) # <<>>

\* lines 137-144: the changes after the replacement pass
AuthenticityChanges(original_text, enhanced) ==
    IF enhanced # original_text
    THEN << [type        |-> "authenticity_enhancement",
             description |-> "Applied authentic Amharic replacements",
             original    |-> original_text,
             enhanced    |-> enhanced] >>
    ELSE <<>>

\* Punctuated without the assignment of line 148
PunctuatedNever(enhanced) == enhanced

\* lines 147-148: the text after the punctuation step
Punctuated(enhanced) ==
    IF NeedsPunctuation(enhanced) THEN Strip(enhanced) \o <<4962>>
    ELSE enhanced

\* PunctuationChanges with the text of line 135 as the 'original' of line 152
PunctuationChangesOnEnhanced(original_text, enhanced, changes) ==
    IF NeedsPunctuation(enhanced)
    THEN Append(changes,
                [type        |-> "punctuation",
                 description |-> "Added sentence-ending punctuation",
                 original    |-> enhanced,
                 enhanced    |-> Punctuated(enhanced)])
    ELSE changes

\* lines 147-154: the changes after the punctuation step
PunctuationChanges(original_text, enhanced, changes) ==
    IF NeedsPunctuation(enhanced)
    THEN Append(changes,
                [type        |-> "punctuation",
                 description |-> "Added sentence-ending punctuation",
                 original    |-> original_text,
                 enhanced    |-> Punctuated(enhanced)])
    ELSE changes

\* lines 156-163
EnhancementResult(original_text, context_category, issues, enhanced_text, changes_made) ==
    [original_text             |-> original_text,
     enhanced_text             |-> enhanced_text,
     context_category          |-> context_category,
     changes_made              |-> changes_made,
     quality_issues_identified |-> issues,
     enhancement_score         |->
         Frac(Len(changes_made),
              IF Len(original_text) # 0 THEN Len(original_text) ELSE 1)]

\* lines 137-163, on the text the replacement pass of line 135 returns
EnhancementOf(original_text, context_category, issues, enhanced) ==
    EnhancementResult(original_text, context_category, issues,
        Punctuated(enhanced),
        PunctuationChanges(original_text, enhanced,
                           AuthenticityChanges(original_text, enhanced)))

enhance_amharic_text(text, context_category) ==
    EnhancementOf(text, context_category, identify_quality_issues(text),
                  apply_authenticity_enhancements(text))

\* ------------------------------------------------------ AmharicDataCollector
\* MostlyAmharic with the comparison of line 81 as >=
MostlyAmharicAtLeast(amharic_chars, total_chars) ==
    IF total_chars = 0 THEN FALSE
    ELSE FLeq(Frac(7, 10), Frac(amharic_chars, total_chars))

\* lines 77-81
MostlyAmharic(amharic_chars, total_chars) ==
    IF total_chars = 0 THEN FALSE
    ELSE FLt(Frac(7, 10), Frac(amharic_chars, total_chars))

is_amharic_text(text) ==
    IF text = <<>> \/ Len(Strip(text)) < 10 THEN FALSE
    ELSE MostlyAmharic(CountIn(text, EthiopicChars),
                       Len(Replace(Replace(text, <<SP>>, <<>>), <<NL>>, <<>>)))

\* number of leading characters of s in the class
LeadingCount(s, class) ==
    CHOOSE k \in 0..Len(s) :
        /\ \A i \in 1..k : s[i] \in class
        /\ (k = Len(s) \/ s[k + 1] \notin class)

\* re.sub(r'\s+', ' ', s)
RECURSIVE CollapseWhitespace(_)
CollapseWhitespace(s) ==
    IF s = <<>> THEN <<>>
    ELSE IF IsSpace(s[1])
         THEN <<SP>> \o CollapseWhitespace(Drop(s, LeadingCount(s, SpaceChars) + 1))
         ELSE <<s[1]>> \o CollapseWhitespace(Tail(s))

\* s starts with '&', k >= 1 letters or digits and ';'
EntityAt(s, k) ==
    /\ s[1] = AMPERSAND
    /\ k >= 1
    /\ k + 2 <= Len(s)
    /\ s[k + 2] = SEMICOLON

\* re.sub(r'&[a-zA-Z0-9]+;', '', s); k is the number of letters and digits
\* that follow the first character of s
RECURSIVE RemoveEntities(_)
RECURSIVE RemoveEntitiesFrom(_, _)
RemoveEntitiesFrom(s, k) ==
    IF EntityAt(s, k) THEN RemoveEntities(Drop(s, k + 3))
    ELSE <<s[1]>> \o RemoveEntities(Tail(s))

RemoveEntities(s) ==
    IF s = <<>> THEN <<>>
    ELSE RemoveEntitiesFrom(s, LeadingCount(Tail(s), AsciiAlnumChars))

\* re.sub of the character filter of line 103
RemoveDisallowed(s) == SelectSeq(s, IsKeptChar)

clean_amharic_text(text) ==
    IF text = <<>> THEN <<>>
    ELSE Strip(RemoveDisallowed(RemoveEntities(CollapseWhitespace(Strip(text)))))

\* ------------------------------------------------------------------ inputs
\* fragments the input texts are built from
Words ==
    { <<SP>>, <<NL>>, <<63>>, <<4962>>, <<65>>, <<97>>,
      <<BACKSLASH, LETTER_n>>,
      <<AMPERSAND, 97, 109, 112, SEMICOLON>>,
      <<EM_DASH>>,
      <<4900, 4755>>,
      <<4854, 4781, 4720, 4653>>,
      <<4773, 4757, 4848, 4637, 4757, 32, 4768, 4848, 4653, 4781>> }

RECURSIVE Concats(_)
Concats(k) ==
    IF k = 0 THEN {<<>>}
    ELSE LET shorter == Concats(k - 1)
         IN  shorter \cup {w \o t : w \in Words, t \in shorter}

\* the greeting of test_amharic_tools.py line 41
Greeting ==
    <<4773, 4757, 4848, 4637, 4757, 32, 4768, 4848, 4653, 4781, 32, 4768,
      4757, 4720, 4661, 32, 4773, 4757, 4852, 4725, 32, 4752, 4613>>

\* the text of test_amharic_tools.py line 22
Blessing ==
    <<4773, 4757, 4848, 4637, 4757, 32, 4768, 4848, 4653, 4781, 63, 32, 4848,
      4613, 4755, 32, 4752, 4765, 4963, 32, 4773, 4877, 4826, 4768, 4709,
      4628, 4653, 32, 4845, 4632, 4661, 4872, 4757, 4962>>

\* 'hello world'
HelloWorld == <<104, 101, 108, 108, 111, 32, 119, 111, 114, 108, 100>>

\* 'a &amp; b'
EntityBetweenSpaces == <<97, 32, 38, 97, 109, 112, 59, 32, 98>>

\* 'AAAA aaaa aaa'
NearFair == <<65, 65, 65, 65, 32, 97, 97, 97, 97, 32, 97, 97, 97>>

\* the three sample texts of _simulate_data_collection
SampleEducation ==
    <<4840, 4770, 4725, 4846, 4917, 4843, 32, 4632, 4757, 4877, 4661, 4725,
      32, 4768, 4850, 4661, 32, 4840, 4725, 4637, 4613, 4653, 4725, 32, 4950,
      4618, 4658, 32, 4768, 4808, 4899, 4962, 32, 4845, 4613, 32, 4950, 4618,
      4658, 32, 4704, 4609, 4617, 4637, 32, 4781, 4621, 4622, 4733, 32, 4845,
      4720, 4872, 4704, 4651, 4621, 4962>>

SampleGreeting ==
    <<4773, 4757, 4848, 4637, 4757, 32, 4768, 4848, 4653, 4781, 63, 32, 4848,
      4613, 4755, 32, 4752, 4765, 4963, 32, 4773, 4877, 4826, 4768, 4709,
      4628, 4653, 32, 4845, 4632, 4661, 4872, 4757, 4962, 32, 4768, 4757,
      4720, 4661, 32, 4773, 4757, 4852, 4725, 32, 4752, 4613, 63>>

SampleFood ==
    <<4896, 4811, 4725, 32, 4725, 4637, 4613, 4653, 4725, 32, 4708, 4725, 32,
      4661, 4612, 4853, 32, 4773, 4755, 4724, 32, 4637, 4659, 32, 4768, 4824,
      4875, 4864, 4733, 4621, 4765, 4962, 32, 4704, 4899, 4637, 32, 4899,
      4939, 4909, 32, 4808, 4901, 32, 4752, 4704, 4653, 4962>>

\* the texts of test_concurrent_tool_usage
TestStew ==
    <<4808, 4901, 32, 4704, 4619, 4609, 4962, 32, 4704, 4899, 4637, 32, 4899,
      4939, 4909, 32, 4752, 4704, 4653, 4962>>

TestDoctor ==
    <<4624, 4778, 4637, 32, 4808, 4852, 4725, 32, 4612, 4848, 4613, 63, 32,
      4808, 4848, 32, 4614, 4661, 4946, 4723, 4621, 32, 4612, 4851, 4616,
      4609, 4962>>

\* a borrowed word and no final punctuation
BorrowedDoctor == <<4854, 4781, 4720, 4653, 32, 4752, 4813>>

\* seven Ethiopic characters and 'ok!'
SevenInTen ==
    <<4656, 4619, 4637, 32, 4752, 4813, 32, 4609, 4617, 32, 111, 107, 33>>

\* the first sentence of SampleEducation: 32 characters and the full stop
PolicySentence == SubSeq(SampleEducation, 1, 33)

\* a greeting and the first foreign term twice
TwoDoctors ==
    <<4773, 4757, 4848, 4637, 4757, 32, 4768, 4848, 4653, 4781, 32,
      4854, 4781, 4720, 4653, 32, 4854, 4781, 4720, 4653>>

\* the three incomplete phrases of the phrase table and no final punctuation
ThreePhrases ==
    common_phrases[1][1] \o <<SP>> \o common_phrases[2][1] \o <<SP>>
    \o common_phrases[3][1]

\* the first completed phrase of the phrase table
CompletedGreeting == common_phrases[1][2]

\* a sentence of one word that the replacement table maps to itself
IdentityEntry == authentic_replacements[5][1] \o <<4962>>

Samples ==
    { IdentityEntry, ThreePhrases, TwoDoctors, PolicySentence, SevenInTen, Greeting, Blessing, HelloWorld, EntityBetweenSpaces, NearFair,
      SampleEducation, SampleGreeting, SampleFood, TestStew, TestDoctor,
      BorrowedDoctor }

Texts == Samples \cup Concats(MaxParts)

\* a JSON null in the place of a text
None == <<-1>>

\* dict.update(upd) on item
Update(item, upd) ==
    [f \in (DOMAIN item) \cup (DOMAIN upd) |->
        IF f \in DOMAIN upd THEN upd[f] ELSE item[f]]

ItemPool ==
    { [text |-> Greeting, category |-> "greeting"],
      [text |-> CompletedGreeting],
      [text |-> IdentityEntry],
      [text |-> HelloWorld],
      [text |-> TestStew, source |-> "bbc_amharic"],
      [source |-> "bbc_amharic"],
      [text |-> None] }

Batches == UNION {[1..n -> ItemPool] : n \in 0..MaxBatch}

\* quality thresholds, in thousandths
Thresholds == {0, 281, 600}

TextOps ==
    { "calculate_overall_quality_score", "identify_quality_issues",
      "enhance_amharic_text", "is_amharic_text", "clean_amharic_text" }

\* quality thresholds of collect_amharic_data, in thousandths: the default,
\* the estimated_quality of a sample and a value above every sample
CollectThresholds == {600, 900, 960}

\* values of max_items above the 10 records of line 86 and above the 100 of
\* line 325
LargeCounts == {12, 101}

Req(op, text, detailed, data, threshold, enhance) ==
    [op |-> op, text |-> text, detailed_analysis |-> detailed,
     input_data |-> data, quality_threshold |-> threshold,
     enhance_quality |-> enhance, max_items |-> 0]

\* a call of collect_amharic_data with the default sources
CollectReq(max_items, threshold) ==
    [Req("collect_amharic_data", <<>>, TRUE, <<>>, threshold, FALSE)
        EXCEPT !.max_items = max_items]

Requests ==
    {Req(op, t, TRUE, <<>>, 0, FALSE) : op \in TextOps, t \in Texts}
    \cup {Req("score_amharic_quality", t, d, <<>>, 0, FALSE) :
             t \in Texts \cup {None}, d \in BOOLEAN}
    \cup {Req("batch_process_dataset", <<>>, TRUE, b, q, e) :
             b \in Batches, q \in Thresholds, e \in BOOLEAN}
    \cup {CollectReq(m, q) : m \in ((-1)..MaxItems) \cup LargeCounts,
                              q \in CollectThresholds}

\* the attributes of lines 21-39 of scorer.py and lines 22-46 of enhancer.py
Tables ==
    [weights                 |-> weights,
     authentic_indicators    |-> authentic_indicators,
     excessive_foreign_terms |-> excessive_foreign_terms,
     vowel_omissions         |-> vowel_omissions,
     common_phrases          |-> common_phrases,
     authentic_replacements  |-> authentic_replacements]

\* ------------------------------------------------------------------- state
VARIABLES
    request,         \* the call in flight: operation and arguments as sent
    pc,              \* "called", "loop" (inside the batch loop), "returned", "raised"
    response,        \* the value returned to the caller
    input_data,      \* batch_process_dataset: the caller's list of item dicts
    idx,             \* batch_process_dataset: number of items the loop has taken
    processed_data,  \* batch_process_dataset: local list
    stats,           \* batch_process_dataset: local dict
    db_rows,         \* the committed rows of the table amharic_data_items
    calls,           \* the other calls on the instance: the frames of tool calls
                     \* that run concurrently, or the item lists of the calls of
                     \* store_authentic_data that have returned
    tables,          \* the attributes the scorer and the enhancer set in __init__
    session,         \* the session of the manager call in flight
    now              \* the clock the timestamp column is filled from

vars ==
    <<request, pc, response, input_data, idx, processed_data, stats, db_rows,
      calls, tables, session, now>>

NoResponse == <<>>

\* no session is open and nothing is pending
NoSession == [open |-> FALSE, pending |-> <<>>, commits |-> 0]

NoStats ==
    [input_count |-> 0, enhanced_count |-> 0, high_quality_count |-> 0,
     filtered_out |-> 0]

Init ==
    /\ request \in Requests
    /\ pc = "called"
    /\ response = NoResponse
    /\ input_data = request.input_data
    /\ idx = 0
    /\ processed_data = <<>>
    /\ stats = NoStats
    /\ db_rows = <<>>
    /\ calls = <<>>
    /\ tables = Tables
    /\ session = NoSession
    /\ now = 0

\* no call runs beside the one in flight, no handler assigns to an attribute
\* of the scorer or the enhancer, and the handler holds no session
Alone == UNCHANGED <<calls, tables, session, now>>

\* neither the batch loop nor the database is touched
BatchIdle ==
    UNCHANGED <<input_data, idx, processed_data, stats, db_rows>> /\ Alone

\* a call that is waiting to run
Called(op) == pc = "called" /\ request.op = op

\* the call returns value to its caller
Returns(value) ==
    /\ pc' = "returned"
    /\ response' = value
    /\ UNCHANGED request
    /\ BatchIdle

\* ------------------------------------------------------ direct library calls
CallScorer ==
    /\ Called("calculate_overall_quality_score")
    /\ Returns(calculate_overall_quality_score(request.text))

CallIdentifyIssues ==
    /\ Called("identify_quality_issues")
    /\ Returns(identify_quality_issues(request.text))

CallEnhancer ==
    /\ Called("enhance_amharic_text")
    /\ Returns(enhance_amharic_text(request.text, "general"))

CallIsAmharic ==
    /\ Called("is_amharic_text")
    /\ Returns(is_amharic_text(request.text))

CallClean ==
    /\ Called("clean_amharic_text")
    /\ Returns(clean_amharic_text(request.text))

\* ------------------------------------------------------------- server tools
\* ScoreToolResult with the test of line 158 inverted
ScoreToolResultFlagInverted(text, detailed_analysis, quality_result) ==
    IF detailed_analysis
    THEN [text             |-> text,
          quality_score    |-> quality_result.overall_score,
          quality_category |-> quality_result.quality_category,
          recommendations  |-> quality_result.recommendations]
    ELSE quality_result

\* lines 158-168 of main.py, on the quality_result of line 156
ScoreToolResult(text, detailed_analysis, quality_result) ==
    IF ~detailed_analysis
    THEN [text             |-> text,
          quality_score    |-> quality_result.overall_score,
          quality_category |-> quality_result.quality_category,
          recommendations  |-> quality_result.recommendations]
    ELSE quality_result

\* the scorer raises on no str; the handler turns any exception into McpError
ScoreToolRaises(text) == text = None

score_amharic_quality ==
    /\ Called("score_amharic_quality")
    /\ IF ScoreToolRaises(request.text)
       THEN pc' = "raised" /\ response' = "McpError"
       ELSE /\ pc' = "returned"
            /\ response' =
                   ScoreToolResult(request.text, request.detailed_analysis,
                       calculate_overall_quality_score(request.text))
    /\ UNCHANGED request
    /\ BatchIdle

HasText(item) == "text" \in DOMAIN item

\* lines 245-251 of main.py
BatchStart ==
    /\ Called("batch_process_dataset")
    /\ pc' = "loop"
    /\ processed_data' = <<>>
    /\ stats' = [input_count        |-> Len(input_data),
                 enhanced_count     |-> 0,
                 high_quality_count |-> 0,
                 filtered_out       |-> 0]
    /\ UNCHANGED <<request, response, input_data, idx, db_rows>>
    /\ Alone

\* WithEnhancement without the assignment of line 260
WithEnhancementKeepsText(item, enhancement) ==
    Update(item, [rag_enhanced |-> TRUE,
                  rag_changes  |-> enhancement.changes_made])

\* lines 260-262: the item with the enhancement written into it
WithEnhancement(item, enhancement) ==
    Update(item, [text         |-> enhancement.enhanced_text,
                  rag_enhanced |-> TRUE,
                  rag_changes  |-> enhancement.changes_made])

\* lines 255-262: the item after the enhancement branch
EnhancedItem(item, enhance_quality) ==
    IF enhance_quality /\ HasText(item)
    THEN WithEnhancement(item,
             enhance_amharic_text(item.text,
                 IF "category" \in DOMAIN item THEN item.category
                 ELSE "general"))
    ELSE item

\* CountsAsEnhanced without the test of line 263
CountsAsEnhancedWhenText(item, enhance_quality) ==
    /\ enhance_quality
    /\ HasText(item)

\* lines 255 and 263-264: whether the item, given as the enhancement branch
\* left it, increments enhanced_count
CountsAsEnhanced(item, enhance_quality) ==
    /\ enhance_quality
    /\ HasText(item)
    /\ item.rag_changes # <<>>

\* lines 269-273: the item after item.update
ScoredItem(item, quality_result) ==
    Update(item, [quality_score      |-> quality_result.overall_score,
                  quality_category   |-> quality_result.quality_category,
                  quality_components |-> quality_result.component_scores])

\* PassesThreshold with a strict comparison
PassesThresholdStrict(quality_result, quality_threshold) ==
    quality_result.overall_score > quality_threshold

\* line 276
PassesThreshold(quality_result, quality_threshold) ==
    quality_result.overall_score >= quality_threshold

\* StatsAfter with the else branch of line 279 left out
StatsAfterSkipsFiltered(st, enhanced, has_text, keep) ==
    [st EXCEPT
       !.enhanced_count = @ + (IF enhanced THEN 1 ELSE 0),
       !.high_quality_count = @ + (IF has_text /\ keep THEN 1 ELSE 0)]

\* the counters after one item: lines 263-264 and 278-280
StatsAfter(st, enhanced, has_text, keep) ==
    [st EXCEPT
       !.enhanced_count = @ + (IF enhanced THEN 1 ELSE 0),
       !.high_quality_count = @ + (IF has_text /\ keep THEN 1 ELSE 0),
       !.filtered_out = @ + (IF has_text /\ ~keep THEN 1 ELSE 0)]

\* lines 269-280 for an item with text, on the quality_result of line 268
ScoreAndFilter(item, enhanced, quality_result) ==
    /\ input_data' =
           [input_data EXCEPT ![idx + 1] = ScoredItem(item, quality_result)]
    /\ processed_data' =
           IF PassesThreshold(quality_result, request.quality_threshold)
           THEN Append(processed_data, ScoredItem(item, quality_result))
           ELSE processed_data
    /\ stats' = StatsAfter(stats, enhanced, TRUE,
                    PassesThreshold(quality_result, request.quality_threshold))

\* lines 266-282, on the item as the enhancement branch left it
AfterEnhancement(item) ==
    IF HasText(item)
    THEN ScoreAndFilter(item,
                        CountsAsEnhanced(item, request.enhance_quality),
                        calculate_overall_quality_score(item.text))
    ELSE /\ input_data' = [input_data EXCEPT ![idx + 1] = item]
         /\ processed_data' = Append(processed_data, item)
         /\ stats' = StatsAfter(stats, FALSE, FALSE, FALSE)

\* one iteration of the loop of lines 253-282, on an item the tools accept
BatchItem ==
    /\ pc = "loop"
    /\ idx < Len(input_data)
    /\ ~(HasText(input_data[idx + 1]) /\ input_data[idx + 1].text = None)
    /\ AfterEnhancement(EnhancedItem(input_data[idx + 1],
                                     request.enhance_quality))
    /\ idx' = idx + 1
    /\ UNCHANGED <<request, pc, response, db_rows>>
    /\ Alone

\* an iteration on an item whose text is no str: the enhancer (text.strip(),
\* enhancer.py line 63) or the scorer (re.split, scorer.py line 77) raises
\* before the item is touched, and lines 295-297 raise McpError
BatchItemRaises ==
    /\ pc = "loop"
    /\ idx < Len(input_data)
    /\ HasText(input_data[idx + 1])
    /\ input_data[idx + 1].text = None
    /\ pc' = "raised"
    /\ response' = "McpError"
    /\ UNCHANGED <<request, input_data, idx, processed_data, stats, db_rows>>
    /\ Alone

\* lines 284-293
BatchReturn ==
    /\ pc = "loop"
    /\ idx = Len(input_data)
    /\ pc' = "returned"
    /\ response' = [statistics         |-> stats,
                    processed_data     |-> Take(processed_data, 5),
                    total_output_items |-> Len(processed_data)]
    /\ UNCHANGED <<request, input_data, idx, processed_data, stats, db_rows>>
    /\ Alone

\* ---------------------------------------------------------- data collection
\* the sample records of lines 302-321; estimated_quality in thousandths
sample_data ==
    << [text |-> SampleEducation, source |-> "bbc_amharic",
        category |-> "education", estimated_quality |-> 850],
       [text |-> SampleGreeting, source |-> "authentic_conversation",
        category |-> "greeting", estimated_quality |-> 950],
       [text |-> SampleFood, source |-> "authentic_conversation",
        category |-> "food", estimated_quality |-> 900] >>

\* the default of line 71
DefaultSources == <<"bbc_amharic", "voa_amharic", "authentic_conversation">>

Min(a, b) == IF a < b THEN a ELSE b

\* dict.get(key, default)
GetOr(item, key, default) == IF key \in DOMAIN item THEN item[key] ELSE default

\* the entries of item under the given keys; item.get(key) of a key that is
\* missing is None, which a record shows by not having the field
Restrict(item, keys) == [key \in (DOMAIN item) \cap keys |-> item[key]]

\* lines 324-330; the id 'item_<k>' is the pair <<"item_", k>>
simulate_data_collection(max_items) ==
    [k \in 1..Min(max_items, 100) |->
        Update(sample_data[((k - 1) % Len(sample_data)) + 1],
               [id |-> <<"item_", k>>])]

\* lines 77-80
HighQuality(collected_data, quality_threshold) ==
    SelectSeq(collected_data, LAMBDA item :
        GetOr(item, "estimated_quality", 500) >= quality_threshold)

\* CollectResult without the slice of line 86
CollectResultWhole(collected_data, high_quality) ==
    [collected    |-> Len(collected_data),
     high_quality |-> Len(high_quality),
     sources      |-> DefaultSources,
     data         |-> high_quality]

\* lines 82-87
CollectResult(collected_data, high_quality) ==
    [collected    |-> Len(collected_data),
     high_quality |-> Len(high_quality),
     sources      |-> DefaultSources,
     data         |-> Take(high_quality, 10)]

\* lines 74-87, on the records the simulation returns
CollectFrom(collected_data, quality_threshold) ==
    CollectResult(collected_data,
                  HighQuality(collected_data, quality_threshold))

collect_amharic_data ==
    /\ Called("collect_amharic_data")
    /\ Returns(CollectFrom(simulate_data_collection(request.max_items),
                           request.quality_threshold))

\* ------------------------------------------------------- AmharicDataManager
\* lines 86-93 of manager.py; a JSON null is a field that is missing
MetadataOf(item) ==
    Update([rag_enhanced |-> FALSE, rag_changes |-> <<>>],
           Restrict(item, {"title", "context", "type", "estimated_quality",
                           "rag_enhanced", "rag_changes"}))

\* lines 79-94 of manager.py: the row built from one item, with the primary
\* key the table assigns; a NULL column is a field that is missing, and the
\* timestamp column is left out
RowOf(item, id) ==
    Update(Restrict(item, {"source", "category", "quality_score",
                           "quality_category"}),
           [id            |-> id,
            text          |-> GetOr(item, "text", <<>>),
            length        |-> Len(GetOr(item, "text", <<>>)),
            metadata_json |-> MetadataOf(item)])

\* lines 77-99: the table after the commit
store_authentic_data(rows, data_items) ==
    rows \o [k \in 1..Len(data_items) |-> RowOf(data_items[k], Len(rows) + k)]

\* the column is NULL in the row
IsNull(row, column) == column \notin DOMAIN row

\* the distinct values of a column that 'if s[0]' of lines 190-191 lets
\* through: neither NULL nor the empty string
Truthy(rows, column) ==
    {rows[k][column] : k \in {j \in 1..Len(rows) : ~IsNull(rows[j], column)}}
        \ {""}

\* lines 182-203, on the rows whose quality_score is not null
StatisticsOf(rows, scored) ==
    [total_items |-> Len(rows),
     sources     |-> Truthy(rows, "source"),
     categories  |-> Truthy(rows, "category"),
     average_quality_score |->
         IF scored = <<>> THEN 0 ELSE scored[1].quality_score]

\* lines 210-215: the result after an exception
StatisticsFailed ==
    [total_items |-> 0, sources |-> {}, categories |-> {},
     average_quality_score |-> 0]

\* Query.scalar() of lines 194-196 raises when the query has more than one
\* row
ScalarRaises(scored) == Len(scored) > 1

\* lines 172-217, on the rows whose quality_score is not null
StatisticsFrom(rows, scored) ==
    IF ScalarRaises(scored) THEN StatisticsFailed
    ELSE StatisticsOf(rows, scored)

get_statistics(rows) ==
    StatisticsFrom(rows, SelectSeq(rows, LAMBDA row :
                                 ~IsNull(row, "quality_score")))

\* lines 208-213 of main.py
StoreResult(stored_count, statistics) ==
    [stored_items |-> stored_count,
     total_items  |-> statistics.total_items,
     sources      |-> statistics.sources]

\* the records a finished pipeline call hands over to storage
HandedOver ==
    IF request.op = "batch_process_dataset" THEN response.processed_data
    ELSE response.data

\* lines 195-218 of main.py, called with the records of the call before
store_amharic_data ==
    /\ pc = "returned"
    /\ request.op \in {"batch_process_dataset", "collect_amharic_data"}
    /\ pc' = "stored"
    /\ db_rows' = store_authentic_data(db_rows, HandedOver)
    /\ response' = StoreResult(Len(HandedOver), get_statistics(db_rows'))
    /\ UNCHANGED <<request, input_data, idx, processed_data, stats>>
    /\ Alone

Next ==
    \/ CallScorer
    \/ CallIdentifyIssues
    \/ CallEnhancer
    \/ CallIsAmharic
    \/ CallClean
    \/ score_amharic_quality
    \/ BatchStart
    \/ BatchItem
    \/ BatchItemRaises
    \/ BatchReturn
    \/ collect_amharic_data
    \/ store_amharic_data

Spec == Init /\ [][Next]_vars

\* ------------------------------------------------- tool calls run together
\* texts of the calls that run together
ConcTexts == {Greeting, BorrowedDoctor}

\* a call of score_amharic_quality that has not started
ScoreCall(text, detailed_analysis) ==
    [op |-> "score_amharic_quality", text |-> text,
     detailed_analysis |-> detailed_analysis, texts |-> <<>>,
     at |-> "start", quality_result |-> <<>>,
     applied |-> <<>>, enhanced_results |-> <<>>, result |-> <<>>]

\* a call of enhance_amharic_quality that has not started
EnhanceCall(texts) ==
    [ScoreCall(<<>>, TRUE) EXCEPT !.op = "enhance_amharic_quality",
                                  !.texts = texts]

TextLists == UNION {[1..n -> ConcTexts] : n \in 0..MaxTexts}

NewCalls ==
    {ScoreCall(t, d) : t \in ConcTexts, d \in BOOLEAN}
    \cup {EnhanceCall(ts) : ts \in TextLists}

\* WithLocals with one frame shared by all the calls: the local variables
\* that call c assigns land in every call
WithLocalsShared(cs, c, locals) ==
    [k \in DOMAIN cs |->
        IF k = c THEN Update(cs[k], locals)
        ELSE Update(cs[k], Restrict(locals, {"quality_result", "applied"}))]

\* the calls after call c has assigned to local variables of its own frame
WithLocals(cs, c, locals) == [cs EXCEPT ![c] = Update(@, locals)]

\* call c takes a step that assigns to its locals and to nothing else
Steps(c, locals) ==
    /\ calls' = WithLocals(calls, c, locals)
    /\ UNCHANGED <<request, pc, response, input_data, idx, processed_data,
                   stats, db_rows, tables, session, now>>

At(c, op, at) == calls[c].op = op /\ calls[c].at = at

\* main.py line 156
ConcScore ==
    \E c \in DOMAIN calls :
    /\ At(c, "score_amharic_quality", "start")
    /\ Steps(c, [at |-> "scored",
                 quality_result |->
                     calculate_overall_quality_score(calls[c].text)])

\* main.py lines 158-173
ConcScoreReturn ==
    \E c \in DOMAIN calls :
    /\ At(c, "score_amharic_quality", "scored")
    /\ Steps(c, [at |-> "done",
                 result |-> ScoreToolResult(calls[c].text,
                                            calls[c].detailed_analysis,
                                            calls[c].quality_result)])

\* the text the loop of main.py line 118 is at
CurrentText(call) == call.texts[Len(call.enhanced_results) + 1]

\* AppliedAfter with the replacement pass run on the output of the run before
AppliedAfterCarriedOver(call) ==
    Append(call.applied,
           apply_authenticity_enhancements(
               IF call.applied = <<>> THEN CurrentText(call)
               ELSE Last(call.applied)))

\* the outputs of enhancer.py line 135 that the call has seen, after one more
AppliedAfter(call) ==
    Append(call.applied, apply_authenticity_enhancements(CurrentText(call)))

\* enhancer.py lines 132-166 and main.py line 120, given the outputs of line 135
LocalsAfterText(call, applied) ==
    [applied |-> applied,
     enhanced_results |->
         Append(call.enhanced_results,
                EnhancementOf(CurrentText(call), "general",
                              identify_quality_issues(CurrentText(call)),
                              Last(applied)))]

\* main.py lines 118-120: one turn of the loop over the texts. The handler has
\* no await, so the event loop switches calls at none of these points; the
\* steps here are finer than any schedule that asyncio can produce
ConcEnhanceText ==
    \E c \in DOMAIN calls :
    /\ At(c, "enhance_amharic_quality", "start")
    /\ Len(calls[c].enhanced_results) < Len(calls[c].texts)
    /\ Steps(c, LocalsAfterText(calls[c], AppliedAfter(calls[c])))

\* main.py lines 122-126
EnhanceToolResult(enhanced_results) ==
    [enhanced_count |-> Len(enhanced_results),
     total_changes  |->
         SumSeq([k \in 1..Len(enhanced_results) |->
                    Len(enhanced_results[k].changes_made)]),
     results        |-> enhanced_results]

\* main.py lines 122-131
ConcEnhanceReturn ==
    \E c \in DOMAIN calls :
    /\ At(c, "enhance_amharic_quality", "start")
    /\ Len(calls[c].enhanced_results) = Len(calls[c].texts)
    /\ Steps(c, [at |-> "done",
                 result |-> EnhanceToolResult(calls[c].enhanced_results)])

\* MaxCalls calls are issued on one server instance, and none has started
ConcInit ==
    /\ calls \in [1..MaxCalls -> NewCalls]
    /\ tables = Tables
    /\ request = Req("concurrent", <<>>, TRUE, <<>>, 0, FALSE)
    /\ pc = "concurrent"
    /\ response = NoResponse
    /\ input_data = <<>>
    /\ idx = 0
    /\ processed_data = <<>>
    /\ stats = NoStats
    /\ db_rows = <<>>
    /\ session = NoSession
    /\ now = 0

ConcNext ==
    \/ ConcScore
    \/ ConcScoreReturn
    \/ ConcEnhanceText
    \/ ConcEnhanceReturn

ConcSpec == ConcInit /\ [][ConcNext]_vars

\* --------------------------------------------- the manager, called directly
\* the items of the calls of store_authentic_data: the item of test_database,
\* a scored item of another category, an item without quality fields and an
\* item whose text is null
DbItems ==
    { [text |-> Blessing, source |-> "test", category |-> "greeting",
       quality_score |-> 900, quality_category |-> "excellent"],
      [text |-> TestStew, source |-> "authentic_conversation",
       category |-> "food", quality_score |-> 650,
       quality_category |-> "good"],
      [text |-> HelloWorld, source |-> "bbc_amharic", category |-> "greeting"],
      [text |-> None] }

DbLists == UNION {[1..n -> DbItems] : n \in 0..MaxRows}

\* the arguments of retrieve_high_quality_data; a category that is None is a
\* field that is missing
RetrieveCalls ==
    {[op |-> "retrieve_high_quality_data", min_quality_score |-> m,
      limit |-> l] : m \in {650, 700}, l \in {0, 1, 100}}
    \cup {[op |-> "retrieve_high_quality_data", min_quality_score |-> m,
           limit |-> l, category |-> c] :
             m \in {650, 700}, l \in {1, 100}, c \in {"greeting", ""}}

\* a manager call can begin: none is in flight
DbIdle == pc \in {"idle", "returned", "raised"}

\* all but the manager's own state
DbAlone ==
    UNCHANGED <<input_data, processed_data, stats, tables>>

\* manager.py lines 73-74
DbStoreBegin ==
    /\ DbIdle
    /\ Len(calls) < MaxStores
    /\ \E data_items \in DbLists :
           request' = [op |-> "store_authentic_data",
                       data_items |-> data_items]
    /\ session' = [open |-> TRUE, pending |-> <<>>, commits |-> 0]
    /\ idx' = 0
    /\ pc' = "adding"
    /\ response' = NoResponse
    /\ UNCHANGED <<db_rows, calls, now>>
    /\ DbAlone

\* len(item.get('text', '')) of line 85 raises on a text that is None
RowRaises(item) == GetOr(item, "text", <<>>) = None

\* lines 77-97: one turn of the loop
DbAdd ==
    /\ pc = "adding"
    /\ idx < Len(request.data_items)
    /\ ~RowRaises(request.data_items[idx + 1])
    /\ session' = [session EXCEPT
                      !.pending = Append(@, RowOf(request.data_items[idx + 1], 0))]
    /\ idx' = idx + 1
    /\ UNCHANGED <<request, pc, response, db_rows, calls, now>>
    /\ DbAlone

\* lines 77-94 and 102: building the row raises
DbAddRaises ==
    /\ pc = "adding"
    /\ idx < Len(request.data_items)
    /\ RowRaises(request.data_items[idx + 1])
    /\ pc' = "failed"
    /\ UNCHANGED <<request, response, db_rows, calls, idx, session, now>>
    /\ DbAlone

\* the table after a commit: the pending rows get the next primary keys and
\* the timestamps of the clock, which runs on between two rows (spread) or
\* does not
Committed(rows, pending, clock, spread) ==
    rows \o [k \in 1..Len(pending) |->
                Update(pending[k],
                       [id        |-> Len(rows) + k,
                        timestamp |-> clock + (IF spread THEN k ELSE 1)])]

\* CommitFailed with the first pending row left in the table
CommitFailedPartly(rows, pending) == rows \o Take(pending, 1)

\* the table after a commit that failed and the rollback of line 103: the
\* transaction is atomic
CommitFailed(rows, pending) == rows

\* line 99, when the commit succeeds
DbCommit ==
    /\ pc = "adding"
    /\ idx = Len(request.data_items)
    /\ \E spread \in BOOLEAN :
           db_rows' = Committed(db_rows, session.pending, now, spread)
    /\ now' = now + Len(session.pending) + 1
    /\ session' = [session EXCEPT !.pending = <<>>, !.commits = @ + 1]
    /\ pc' = "committed"
    /\ UNCHANGED <<request, response, idx, calls>>
    /\ DbAlone

\* line 99, when the storage fails
DbCommitRaises ==
    /\ pc = "adding"
    /\ idx = Len(request.data_items)
    /\ session' = [session EXCEPT !.commits = @ + 1]
    /\ pc' = "failed"
    /\ UNCHANGED <<request, response, idx, db_rows, calls, now>>
    /\ DbAlone

\* lines 102-105
DbRollback ==
    /\ pc = "failed"
    /\ db_rows' = CommitFailed(db_rows, session.pending)
    /\ session' = [session EXCEPT !.pending = <<>>]
    /\ pc' = "rolledback"
    /\ UNCHANGED <<request, response, idx, calls, now>>
    /\ DbAlone

\* lines 106-109 after the commit: the session is closed and the count is
\* returned
DbReturn ==
    /\ pc = "committed"
    /\ session' = [session EXCEPT !.open = FALSE]
    /\ response' = idx
    /\ calls' = Append(calls, request.data_items)
    /\ pc' = "returned"
    /\ UNCHANGED <<request, idx, db_rows, now>>
    /\ DbAlone

\* lines 105-107 after the rollback: the session is closed and the exception
\* goes on to the caller
DbRaise ==
    /\ pc = "rolledback"
    /\ session' = [session EXCEPT !.open = FALSE]
    /\ pc' = "raised"
    /\ UNCHANGED <<request, response, idx, db_rows, calls, now>>
    /\ DbAlone

\* Selected without the test of the quality score
SelectedWhateverScore(row, call) ==
    /\ ~IsNull(row, "quality_score")
    /\ GetOr(call, "category", "") # ""
           => (~IsNull(row, "category") /\ row.category = call.category)

\* the filter of lines 130-135; 'if category' takes neither None nor ''
Selected(row, call) ==
    /\ ~IsNull(row, "quality_score")
    /\ row.quality_score >= call.min_quality_score
    /\ GetOr(call, "category", "") # ""
           => (~IsNull(row, "category") /\ row.category = call.category)

\* row a comes before row b under ORDER BY timestamp DESC; rows of one
\* timestamp come in the order of their keys or against it, as the database
\* engine likes
ComesBefore(a, b, keys_up) ==
    \/ a.timestamp > b.timestamp
    \/ a.timestamp = b.timestamp /\ (IF keys_up THEN a.id <= b.id ELSE a.id >= b.id)

\* the row of the set that comes first
Newest(rows, keys_up) ==
    CHOOSE a \in rows : \A b \in rows : ComesBefore(a, b, keys_up)

RECURSIVE Ordered(_, _)

\* the rows of the set in the order of line 137, given the one that is first
OrderedAfter(first, rows, keys_up) ==
    <<first>> \o Ordered(rows \ {first}, keys_up)

\* the rows of the set in the order of line 137
Ordered(rows, keys_up) ==
    IF rows = {} THEN <<>>
    ELSE OrderedAfter(Newest(rows, keys_up), rows, keys_up)

\* lines 141-159: the dict made from a row
ItemOf(row) ==
    Update(Restrict(row, {"id", "text", "source", "category", "quality_score",
                          "quality_category", "length", "timestamp"}),
           row.metadata_json)

ItemsOf(rows) == [k \in 1..Len(rows) |-> ItemOf(rows[k])]

\* lines 130-159, for one order of the rows of equal timestamp
retrieve_high_quality_data(rows, call, keys_up) ==
    ItemsOf(Take(Ordered({rows[k] : k \in {j \in 1..Len(rows) :
                                              Selected(rows[j], call)}},
                         keys_up),
                 call.limit))

\* lines 111-170, after the calls of store_authentic_data so far
DbRetrieve ==
    /\ DbIdle
    /\ \E call \in RetrieveCalls, keys_up \in BOOLEAN :
           /\ request' = call
           /\ response' = retrieve_high_quality_data(db_rows, call, keys_up)
    /\ pc' = "retrieved"
    /\ UNCHANGED <<idx, db_rows, calls, session, now>>
    /\ DbAlone

\* lines 172-217, after the calls of store_authentic_data so far
DbStatistics ==
    /\ DbIdle
    /\ request' = [op |-> "get_statistics"]
    /\ response' = get_statistics(db_rows)
    /\ pc' = "counted"
    /\ UNCHANGED <<idx, db_rows, calls, session, now>>
    /\ DbAlone

\* a manager on a fresh database, as in test_database
DbInit ==
    /\ request = [op |-> "AmharicDataManager"]
    /\ pc = "idle"
    /\ response = NoResponse
    /\ input_data = <<>>
    /\ idx = 0
    /\ processed_data = <<>>
    /\ stats = NoStats
    /\ db_rows = <<>>
    /\ calls = <<>>
    /\ tables = Tables
    /\ session = NoSession
    /\ now = 0

DbNext ==
    \/ DbStoreBegin
    \/ DbAdd
    \/ DbAddRaises
    \/ DbCommit
    \/ DbCommitRaises
    \/ DbRollback
    \/ DbReturn
    \/ DbRaise
    \/ DbRetrieve
    \/ DbStatistics

DbSpec == DbInit /\ [][DbNext]_vars

\* ------------------------------------------------------------------ claims
Returned(op) == pc = "returned" /\ request.op = op

UnitInterval(thousandths) == thousandths >= 0 /\ thousandths <= 1000

\* C1: for every input text, calculate_overall_quality_score returns an
\* overall_score in [0.0, 1.0] and every entry of component_scores in
\* [0.0, 1.0].
C1_ScoresInUnitInterval ==
    Returned("calculate_overall_quality_score") =>
        /\ UnitInterval(response.overall_score)
        /\ UnitInterval(response.component_scores.amharic_character_ratio)
        /\ UnitInterval(response.component_scores.sentence_structure)
        /\ UnitInterval(response.component_scores.authenticity)
        /\ UnitInterval(response.component_scores.complexity)
        /\ UnitInterval(response.component_scores.coherence)

\* number of the items of a batch that have a text field
TextCount(items) == Cardinality({i \in 1..Len(items) : HasText(items[i])})

\* C2: batch_process_dataset ends with high_quality_count + filtered_out
\* equal to the number of input items that have a text field,
\* total_output_items equal to high_quality_count plus the number of input
\* items without a text field, and input_count equal to the number of input
\* items.
C2_BatchCounts ==
    Returned("batch_process_dataset") =>
        LET sent == request.input_data
            st == response.statistics
        IN  /\ st.high_quality_count + st.filtered_out = TextCount(sent)
            /\ response.total_output_items =
                   st.high_quality_count + (Len(sent) - TextCount(sent))
            /\ st.input_count = Len(sent)

\* C2 witness: a returned batch of two items, one without a text field and
\* one with text that was filtered out
C2_Witness ==
    /\ Returned("batch_process_dataset")
    /\ Len(request.input_data) = 2
    /\ TextCount(request.input_data) = 1
    /\ response.statistics.filtered_out = 1
    /\ response.total_output_items = 1

\* C3: clean_amharic_text is idempotent: cleaning its own output changes
\* nothing.
C3_CleanIdempotent ==
    Returned("clean_amharic_text") => clean_amharic_text(response) = response

\* the claim's precondition: the stripped text is non-empty and does not end
\* in a terminator
LacksFinalTerminator(text) ==
    Strip(text) # <<>> /\ ~IsTerminator(Last(Strip(text)))

\* C4 as stated: for every text whose stripped form is non-empty and does not
\* end in a terminator, enhanced_text ends in U+1362 and at least one Change
\* is recorded.
C4_EndsInEthiopicFullStop ==
    (Returned("enhance_amharic_text") /\ LacksFinalTerminator(request.text)) =>
        /\ response.enhanced_text # <<>>
        /\ Last(response.enhanced_text) = 4962
        /\ Len(response.changes_made) >= 1

\* C4 amended: for every such text the stripped form of enhanced_text ends
\* in U+1362 or in '?', and at least one Change is recorded; U+1362 is what
\* the text ends in exactly when a punctuation Change is recorded.
C4_EndsInTerminator ==
    (Returned("enhance_amharic_text") /\ LacksFinalTerminator(request.text)) =>
        LET out == Strip(response.enhanced_text)
            changes == response.changes_made
        IN  /\ out # <<>>
            /\ Last(out) \in {4962, 63}
            /\ Len(changes) >= 1
            /\ (Last(out) = 4962) <=>
                   (\E i \in 1..Len(changes) : changes[i].type = "punctuation")

\* C4 witness: the greeting of the claim has been enhanced
C4_Witness ==
    /\ Returned("enhance_amharic_text")
    /\ request.text = Greeting
    /\ LacksFinalTerminator(request.text)
    /\ Last(response.enhanced_text) = 63

\* the bucket of a score given in thousandths: inclusive lower bounds in
\* descending order
BucketOfThousandths(t) ==
    IF t >= 800 THEN "excellent"
    ELSE IF t >= 600 THEN "good"
    ELSE IF t >= 400 THEN "fair"
    ELSE "poor"

\* the bucket of an exact score
BucketOfFraction(x) ==
    IF 10 * x.n >= 8 * x.d THEN "excellent"
    ELSE IF 10 * x.n >= 6 * x.d THEN "good"
    ELSE IF 10 * x.n >= 4 * x.d THEN "fair"
    ELSE "poor"

\* C5 as stated: the quality_category of a report is the bucket of the
\* report's overall_score.
C5_CategoryOfReportedScore ==
    Returned("calculate_overall_quality_score") =>
        response.quality_category = BucketOfThousandths(response.overall_score)

\* C5 amended: the quality_category is the bucket of the weighted score
\* before rounding, and overall_score is that score rounded to 3 decimals.
C5_CategoryOfUnroundedScore ==
    Returned("calculate_overall_quality_score") =>
        /\ response.quality_category =
               BucketOfFraction(weighted_score(request.text))
        /\ response.overall_score = Round3(weighted_score(request.text))

\* C5 witness: a report that shows overall_score 0.4 with a weighted score
\* just below 0.4
C5_Witness ==
    /\ Returned("calculate_overall_quality_score")
    /\ response.overall_score = 400
    /\ FLt(weighted_score(request.text), Frac(4, 10))
    /\ response.quality_category = "poor"

\* the ratio is_amharic_text thresholds: Ethiopic characters over the
\* characters that are neither space nor newline, 0 when there are none
EthiopicRatio(text) ==
    LET total == Cardinality({i \in 1..Len(text) : text[i] \notin {SP, NL}})
    IN  IF total = 0 THEN Zero ELSE Frac(CountIn(text, EthiopicChars), total)

\* C6: the scorer's amharic_character_ratio is the ratio is_amharic_text
\* thresholds, so for every text of stripped length >= 10, is_amharic_text
\* is true exactly when calculate_amharic_character_ratio is above 0.7.
C6_SameRatio ==
    Returned("is_amharic_text") =>
        /\ calculate_amharic_character_ratio(request.text)
               = EthiopicRatio(request.text)
        /\ Len(Strip(request.text)) >= 10 =>
               (response <=>
                   FLt(Frac(7, 10),
                       calculate_amharic_character_ratio(request.text)))

\* C7: scoring the empty string does not raise; the four computed components
\* are 0, overall_score is 0.0 or 0.08 and the category is 'poor'.
C7_EmptyTextScore ==
    (request.op = "calculate_overall_quality_score" /\ request.text = <<>>) =>
        /\ pc # "raised"
        /\ pc = "returned" =>
               /\ response.component_scores.amharic_character_ratio = 0
               /\ response.component_scores.sentence_structure = 0
               /\ response.component_scores.authenticity = 0
               /\ response.component_scores.complexity = 0
               /\ response.overall_score \in {0, 80}
               /\ response.quality_category = "poor"

\* C7 witness: the empty string has been scored
C7_Witness ==
    /\ Returned("calculate_overall_quality_score")
    /\ request.text = <<>>
    /\ response.overall_score = 80

\* C8: identify_quality_issues('') returns no issues, and
\* enhance_amharic_text('') returns an empty enhanced_text, no changes, no
\* identified issues and enhancement_score 0.
C8_EmptyTextEnhancer ==
    /\ (Returned("identify_quality_issues") /\ request.text = <<>>) =>
           response = <<>>
    /\ (Returned("enhance_amharic_text") /\ request.text = <<>>) =>
           /\ response.enhanced_text = <<>>
           /\ response.changes_made = <<>>
           /\ response.quality_issues_identified = <<>>
           /\ response.enhancement_score = Zero

\* C9: the score_amharic_quality tool called with an empty text ends in an
\* error raised to the caller, not in a score result.
C9_EmptyTextRejected ==
    (request.op = "score_amharic_quality" /\ request.text = <<>>
        /\ pc # "called") => pc = "raised"

\* C10: with detailed_analysis = false the score_amharic_quality tool
\* returns exactly the keys text, quality_score, quality_category and
\* recommendations, holding the input text and the overall_score,
\* quality_category and recommendations of the full report; with
\* detailed_analysis = true it returns the full report unchanged.
C10_ScoreToolShape ==
    Returned("score_amharic_quality") =>
        LET report == calculate_overall_quality_score(request.text)
        IN  IF request.detailed_analysis
            THEN response = report
            ELSE /\ DOMAIN response = {"text", "quality_score",
                                       "quality_category", "recommendations"}
                 /\ response.text = request.text
                 /\ response.quality_score = report.overall_score
                 /\ response.quality_category = report.quality_category
                 /\ response.recommendations = report.recommendations

\* C10 witness: the simplified result of a text of test_concurrent_tool_usage
C10_Witness ==
    /\ Returned("score_amharic_quality")
    /\ ~request.detailed_analysis
    /\ request.text = TestStew
    /\ "quality_score" \in DOMAIN response

\* C11: with detailed_analysis = true the result of the score_amharic_quality
\* tool contains all of the keys overall_score, quality_category,
\* component_scores and detailed_analysis.
C11_DetailedResultKeys ==
    (Returned("score_amharic_quality") /\ request.detailed_analysis) =>
        {"overall_score", "quality_category", "component_scores",
         "detailed_analysis"} \subseteq DOMAIN response

\* the items of a scored batch that the filter of line 276 keeps, in order
KeptOf(items, quality_threshold) ==
    SelectSeq(items, LAMBDA item :
        ~HasText(item) \/ item.quality_score >= quality_threshold)

\* C12: the items kept by batch_process_dataset are exactly the subsequence
\* of the input, in input order, made of every item without a text field and
\* every item with text whose overall_score >= quality_threshold (a score
\* equal to the threshold is kept); every kept item with text carries
\* quality_score, quality_category and quality_components.
C12_KeptItems ==
    Returned("batch_process_dataset") =>
        /\ Len(input_data) = Len(request.input_data)
        /\ \A i \in 1..Len(input_data) :
               IF HasText(request.input_data[i])
               THEN /\ {"text", "quality_score", "quality_category",
                        "quality_components"} \subseteq DOMAIN input_data[i]
                    /\ input_data[i].quality_score =
                           calculate_overall_quality_score(
                               input_data[i].text).overall_score
               ELSE input_data[i] = request.input_data[i]
        /\ processed_data = KeptOf(input_data, request.quality_threshold)
        /\ response.processed_data = Take(processed_data, 5)
        /\ response.total_output_items = Len(processed_data)

\* C12 witness: a returned batch of two items with text, the first dropped
\* and the second kept with a score equal to the threshold
C12_Witness ==
    /\ Returned("batch_process_dataset")
    /\ Len(input_data) = 2
    /\ HasText(input_data[1])
    /\ input_data[1].quality_score < request.quality_threshold
    /\ HasText(input_data[2])
    /\ input_data[2].quality_score = request.quality_threshold
    /\ processed_data = <<input_data[2]>>

\* the change list the enhancer returns for the text of an item
ChangesOf(item) == enhance_amharic_text(item.text, "general").changes_made

\* C13, enhance_quality = true: every item with text has its text replaced
\* by the enhancer's enhanced_text before scoring, gets rag_enhanced = true
\* and rag_changes = the enhancer's change list, and enhanced_count ends
\* equal to the number of such items whose change list is non-empty.
C13_Enhanced(sent, final, st) ==
    /\ \A i \in 1..Len(sent) :
           HasText(sent[i]) =>
               /\ final[i].text =
                      enhance_amharic_text(sent[i].text, "general").enhanced_text
               /\ final[i].rag_enhanced = TRUE
               /\ final[i].rag_changes = ChangesOf(sent[i])
               /\ final[i].quality_score =
                      calculate_overall_quality_score(
                          enhance_amharic_text(sent[i].text,
                                               "general").enhanced_text
                      ).overall_score
    /\ st.enhanced_count =
           Cardinality({i \in 1..Len(sent) :
                           HasText(sent[i]) /\ ChangesOf(sent[i]) # <<>>})

\* C13, enhance_quality = false: enhanced_count stays 0, no text is altered
\* and no item gains rag_enhanced or rag_changes.
C13_NotEnhanced(sent, final, st) ==
    /\ st.enhanced_count = 0
    /\ \A i \in 1..Len(sent) :
           /\ HasText(sent[i]) => final[i].text = sent[i].text
           /\ (DOMAIN final[i]) \ (DOMAIN sent[i])
                  \subseteq {"quality_score", "quality_category",
                             "quality_components"}

\* C13: the two cases above, for every batch that returns.
C13_EnhancementInBatch ==
    Returned("batch_process_dataset") =>
        IF request.enhance_quality
        THEN C13_Enhanced(request.input_data, input_data,
                          response.statistics)
        ELSE C13_NotEnhanced(request.input_data, input_data,
                             response.statistics)

\* C13 witness: an enhanced batch of the greeting, whose text the enhancer
\* changes, and a text the enhancer leaves alone
C13_Witness ==
    /\ Returned("batch_process_dataset")
    /\ request.enhance_quality
    /\ Len(input_data) = 2
    /\ HasText(request.input_data[1])
    /\ request.input_data[1].text = Greeting
    /\ input_data[1].text # Greeting
    /\ HasText(request.input_data[2])
    /\ request.input_data[2].text = TestStew
    /\ input_data[2].rag_changes = <<>>
    /\ response.statistics.enhanced_count = 1

\* C14: records are passed by copy: after batch_process_dataset returns or
\* fails part-way, the caller's input records are unchanged, the records
\* that were filtered out included.
C14_InputRecordsUnchanged ==
    (request.op = "batch_process_dataset" /\ pc \in {"returned", "raised"}) =>
        input_data = request.input_data

\* C15: every item that enters persisted storage through
\* store_authentic_data carries a non-null quality_score and
\* quality_category, whether it comes from a batch output or straight from
\* collection.
C15_StoredItemsCarryQuality ==
    \A k \in 1..Len(db_rows) :
        /\ ~IsNull(db_rows[k], "quality_score")
        /\ ~IsNull(db_rows[k], "quality_category")

\* the result of a call that runs with no other call on the instance
ResultAlone(call) ==
    IF call.op = "score_amharic_quality"
    THEN ScoreToolResult(call.text, call.detailed_analysis,
                         calculate_overall_quality_score(call.text))
    ELSE EnhanceToolResult([k \in 1..Len(call.texts) |->
                               enhance_amharic_text(call.texts[k], "general")])

\* the results alone of all the calls that can be issued
ResultsAlone == [call \in NewCalls |-> ResultAlone(call)]

\* the call as it was when it was issued
AsIssued(call) ==
    IF call.op = "score_amharic_quality"
    THEN ScoreCall(call.text, call.detailed_analysis)
    ELSE EnhanceCall(call.texts)

InputOf(call, k) == call.texts[k]

NonBlankCount(text) ==
    Cardinality({i \in 1..Len(text) : text[i] \notin {SP, NL}})

\* C18: is_amharic_text never raises; it returns false for every text whose
\* stripped length is below 10 and for every text with no character other
\* than space and newline, and for every other text it returns true exactly
\* when the Ethiopic characters are strictly more than 0.7 of the characters
\* that are neither space nor newline; 0.7 itself and 'hello world' give false
C18_FailsClosed ==
    request.op = "is_amharic_text" =>
        /\ pc # "raised"
        /\ pc = "returned" =>
               response =
                   IF Len(Strip(request.text)) < 10
                      \/ NonBlankCount(request.text) = 0
                   THEN FALSE
                   ELSE 10 * CountIn(request.text, EthiopicChars)
                            > 7 * NonBlankCount(request.text)

\* is_amharic_text has returned false for a text of stripped length >= 10 in
\* which exactly 7 of 10 non-blank characters are Ethiopic
C18_Witness ==
    /\ Returned("is_amharic_text")
    /\ Len(Strip(request.text)) >= 10
    /\ 10 * CountIn(request.text, EthiopicChars)
           = 7 * NonBlankCount(request.text)
    /\ response = FALSE

\* the segment of text that ends just before index i holds a character that
\* is not white space
SegmentBefore(text, i) ==
    \E j \in 1..(i - 1) :
        /\ ~IsSpace(text[j])
        /\ \A k \in j..(i - 1) : ~IsTerminator(text[k])

\* the non-empty sentence segments of text that a terminator follows at once
TerminatedSegments(text) ==
    Cardinality({i \in 1..Len(text) :
                    IsTerminator(text[i]) /\ SegmentBefore(text, i)})

\* the structure metrics of a text as C19 states them
StructureAsStated(avg_length, ratio) ==
    [avg_sentence_length |-> avg_length,
     properly_terminated |-> ratio,
     structure_score     |->
         FAdd(FMul(Frac(7, 10), LengthScore(avg_length)),
              FMul(Frac(3, 10), ratio))]

\* C19: for every text with a sentence, properly_terminated is the fraction
\* of the non-empty sentence segments that a terminator follows at once in
\* the text and structure_score is 0.7 * length_score + 0.3 * that fraction,
\* so a text whose sentences all end with a terminator and average 30..200
\* characters has structure_score 1.0
C19_TerminationRatio ==
    (Returned("calculate_overall_quality_score")
        /\ SplitSentences(request.text) # <<>>) =>
        /\ response.component_metrics.sentence_structure_details
               = StructureAsStated(
                     Frac(SumLen(SplitSentences(request.text)),
                          Len(SplitSentences(request.text))),
                     Frac(TerminatedSegments(request.text),
                          Len(SplitSentences(request.text))))
        /\ request.text = PolicySentence =>
               response.component_scores.sentence_structure = 1000

\* the number of places of text at which a term of the list starts
Occurrences(terms, text) ==
    SumSeq([k \in 1..Len(terms) |->
               Cardinality({i \in 1..Len(text) : MatchAt(text, terms[k], i)})])

\* the authenticity score as C20 states it, from the number of expressions
\* found and the number of occurrences of foreign terms
AuthenticityAsStated(found, occurrences) ==
    FMin(One, FMax(Zero,
        FDiv(FMax(Zero, FSub(Frac(found, 10), Frac(5 * occurrences, 100))),
             FMax(Frac(IndicatorCount, 10), One))))

\* C20: the authenticity component of every scored text is 0.1 for each
\* authentic expression found less 0.05 for each occurrence of a foreign
\* term, not below 0, over the larger of the possible points and 1.0, clamped
\* to [0, 1]; a text with the same foreign term twice loses 0.10
C20_PenaltyPerOccurrence ==
    Returned("calculate_overall_quality_score") =>
        response.component_scores.authenticity
            = Round3(AuthenticityAsStated(
                         FoundIn(request.text),
                         Occurrences(excessive_foreign_terms, request.text)))

\* the number of records that C21 states for max_items
StatedCount(max_items) ==
    IF max_items <= 0 THEN 0 ELSE IF max_items < 100 THEN max_items ELSE 100

\* record i (0-based) as C21 states it
StatedRecord(i) ==
    Update(sample_data[(i % 3) + 1], [id |-> <<"item_", i + 1>>])

\* the 0-based indices below n of the records that pass the threshold
StatedHigh(n, quality_threshold) ==
    {i \in 0..(n - 1) : StatedRecord(i).estimated_quality >= quality_threshold}

\* the result of collect_amharic_data as C21 states it, from the indices of
\* the records that pass
StatedCollection(n, high) ==
    [collected    |-> n,
     high_quality |-> Cardinality(high),
     sources      |-> DefaultSources,
     data         |-> [j \in 1..Min(10, Cardinality(high)) |->
                          StatedRecord(NthOf(high, j))]]

\* C21: collect_amharic_data makes min(max_items, 100) records, none when
\* max_items <= 0, record i (0-based) a copy of sample i mod 3 with the id
\* 'item_{i+1}'; collected is their number, high_quality the number of them
\* with estimated_quality >= quality_threshold, and data the first 10 at most
\* of those, in the order they were made
C21_Collection ==
    request.op = "collect_amharic_data" =>
        /\ pc # "raised"
        /\ pc = "returned" =>
               response = StatedCollection(
                              StatedCount(request.max_items),
                              StatedHigh(StatedCount(request.max_items),
                                         request.quality_threshold))

\* a collection has returned with more than 10 high-quality records of the
\* 100 it made for max_items = 101
C21_Witness ==
    /\ Returned("collect_amharic_data")
    /\ request.max_items > 100
    /\ response.collected = 100
    /\ response.high_quality > 10
    /\ Len(response.data) = 10

\* the types of the changes, in order
TypesOf(changes) == [k \in DOMAIN changes |-> changes[k].type]

\* the types of the changes that C22 states for a text, the output of the
\* replacement pass on it and the enhanced text that is returned
StatedTypes(text, applied, enhanced_text) ==
    (IF applied # text THEN <<"authenticity_enhancement">> ELSE <<>>)
    \o (IF enhanced_text # applied THEN <<"punctuation">> ELSE <<>>)

\* what C22 states of the result of enhancing text, given the output of the
\* replacement pass on it
ChangesAsStated(text, applied, result) ==
    /\ Len(result.changes_made) <= 2
    /\ TypesOf(result.changes_made)
           = StatedTypes(text, applied, result.enhanced_text)
    /\ result.enhanced_text # applied
           => result.enhanced_text = Strip(applied) \o <<4962>>
    /\ \A k \in DOMAIN result.changes_made :
           result.changes_made[k].original = text
    /\ result.changes_made # <<>>
           => Last(result.changes_made).enhanced = result.enhanced_text
    /\ result.enhancement_score
           = Frac(Len(result.changes_made),
                  IF Len(text) > 1 THEN Len(text) ELSE 1)

\* C22: enhance_amharic_text records at most two changes, an
\* authenticity_enhancement change exactly when the replacement pass altered
\* the text, then a punctuation change exactly when the full stop was
\* appended; the 'original' of every change is the input text, the 'enhanced'
\* of the last change is the returned enhanced_text, and enhancement_score is
\* the number of changes over max(len(original_text), 1)
C22_ChangesRecorded ==
    Returned("enhance_amharic_text") =>
        ChangesAsStated(request.text,
                        apply_authenticity_enhancements(request.text),
                        response)

\* a text has been enhanced with both changes: the punctuation change carries
\* the input text as its original, not the output of the replacement pass
C22_Witness ==
    /\ Returned("enhance_amharic_text")
    /\ Len(response.changes_made) = 2
    /\ response.changes_made[2].type = "punctuation"
    /\ response.changes_made[2].original = request.text
    /\ response.changes_made[1].enhanced # request.text

\* pat occurs in text
Occurs(text, pat) == \E i \in 1..Len(text) : MatchAt(text, pat, i)

\* the 0-based index at which pat first occurs in text
FirstIndex(text, pat) ==
    CHOOSE i \in 0..Len(text) :
        /\ MatchAt(text, pat, i + 1)
        /\ \A j \in 0..(i - 1) : ~MatchAt(text, pat, j + 1)

\* the type, the position and the phrase or word of each issue, in order
IssueKeys(issues) ==
    [k \in DOMAIN issues |->
        <<issues[k].type, issues[k].position, issues[k].description[2]>>]

\* the punctuation issue that C23 states for text
StatedPunctuation(text) ==
    IF Strip(text) # <<>> /\ IsTerminator(Last(Strip(text))) THEN <<>>
    ELSE << <<"punctuation", Len(text), <<>> >> >>

\* the phrase_completion issues that C23 states for text, from the entries
\* of the phrase table that count
StatedPhrases(text, entries) ==
    [k \in DOMAIN entries |->
        <<"phrase_completion",
          FirstIndex(text, common_phrases[entries[k]][1]),
          common_phrases[entries[k]][1]>>]

\* the vowel_omission issues that C23 states for text, from the entries of
\* the list that count
StatedVowels(text, entries) ==
    [k \in DOMAIN entries |->
        <<"vowel_omission",
          FirstIndex(text, vowel_omissions[entries[k]]),
          vowel_omissions[entries[k]]>>]

\* the issues that C23 states for text
StatedIssues(text) ==
    StatedPunctuation(text)
    \o StatedPhrases(text,
           SelectSeq(<<1, 2, 3>>, LAMBDA e :
               /\ Occurs(text, common_phrases[e][1])
               /\ ~Occurs(text, common_phrases[e][2])))
    \o StatedVowels(text,
           SelectSeq(<<1, 2, 3>>, LAMBDA e : Occurs(text, vowel_omissions[e])))

\* C23: identify_quality_issues returns, in this order and with nothing
\* merged, the punctuation issue (position len(text)) exactly when the
\* stripped text does not end in a terminator, one phrase_completion issue
\* for each entry of the phrase table, in table order, whose incomplete form
\* occurs in the text while its completed form does not, and one
\* vowel_omission issue for each listed word, in list order, that occurs in
\* the text, each at the first index of what it found; so there are at most
\* 7 issues and every position is in 0..len(text)
C23_IssuesInOrder ==
    Returned("identify_quality_issues") =>
        /\ IssueKeys(response) = StatedIssues(request.text)
        /\ Len(response) <= 7
        /\ \A k \in DOMAIN response :
               response[k].position \in 0..Len(request.text)

\* seven issues of all three types have been returned for one text, with a
\* word reported twice: in a phrase_completion and in a vowel_omission issue
C23_Witness ==
    /\ Returned("identify_quality_issues")
    /\ Len(response) = 7
    /\ response[1].type = "punctuation"
    /\ \E k, m \in DOMAIN response :
           /\ response[k].type = "phrase_completion"
           /\ response[m].type = "vowel_omission"
           /\ k < m
           /\ response[k].position = response[m].position

\* an HTML-entity pattern starts at index i of s: '&', one or more ASCII
\* letters or digits, ';'
EntityPatternAt(s, i) ==
    /\ s[i] = AMPERSAND
    /\ \E j \in (i + 2)..Len(s) :
           /\ s[j] = SEMICOLON
           /\ \A k \in (i + 1)..(j - 1) : s[k] \in AsciiAlnumChars

\* s is normalised in the sense of C24
FullyNormalised(s) ==
    /\ \A i \in 1..Len(s) : ~EntityPatternAt(s, i)
    /\ \A i \in 1..(Len(s) - 1) : ~(s[i] = SP /\ s[i + 1] = SP)
    /\ s # <<>> => ~IsSpace(s[1]) /\ ~IsSpace(Last(s))
    /\ \A i \in 1..Len(s) :
           s[i] \in EthiopicChars \/ s[i] \in 32..127 \/ s[i] \in 160..255

\* C24: for every input the output of clean_amharic_text holds no HTML-entity
\* pattern, no two consecutive spaces, no leading or trailing white space and
\* no character outside the Ethiopic block, U+0020-U+007F and U+00A0-U+00FF,
\* and the empty input gives the empty output
C24_OutputNormalised ==
    Returned("clean_amharic_text") =>
        /\ FullyNormalised(response)
        /\ request.text = <<>> => response = <<>>

\* the items of the lists, in order
RECURSIVE Flat(_)
Flat(lists) == IF lists = <<>> THEN <<>> ELSE Head(lists) \o Flat(Tail(lists))

\* the row holds what the item held in the columns that are taken from it
PersistedAs(row, item) ==
    /\ row.text = GetOr(item, "text", <<>>)
    /\ \A column \in {"source", "category", "quality_score", "quality_category"} :
           IF column \in DOMAIN item
           THEN ~IsNull(row, column) /\ row[column] = item[column]
           ELSE IsNull(row, column)

\* the rows of the table are the items, one row for each and in their order
Persisted(rows, items) ==
    /\ Len(rows) = Len(items)
    /\ \A k \in 1..Len(rows) : PersistedAs(rows[k], items[k])

\* what C25 states of a step of a call of store_authentic_data, given the
\* table before and after the step
AllOrNothing(before, after) ==
    /\ pc' # "committed" => after = before
    /\ pc' = "committed" =>
           /\ SubSeq(after, 1, Len(before)) = before
           /\ Persisted(SubSeq(after, Len(before) + 1, Len(after)),
                        request.data_items)
    /\ pc' = "returned" =>
           /\ response' = Len(request.data_items)
           /\ Persisted(after, Flat(calls'))
           /\ Last(calls') = request.data_items
    /\ pc' = "raised" =>
           /\ response' = NoResponse
           /\ Persisted(after, Flat(calls'))
           /\ calls' = calls
           /\ session'.commits <= 1
    /\ pc' \in {"returned", "raised"} =>
           ~session'.open /\ session'.pending = <<>>

\* C25: a call of store_authentic_data that returns returns len(data_items)
\* and has persisted every item of the call; when building a row or the
\* commit fails the table is as it was before the call, with earlier rows
\* untouched and no item of the call in it, the exception reaches the caller
\* after a single attempt, and in both outcomes the session is closed
C25_StoreAllOrNothing ==
    [][request'.op = "store_authentic_data" => AllOrNothing(db_rows, db_rows')]_vars

\* a call with two items has raised after its commit failed, with rows of an
\* earlier call in the table
C25_Witness ==
    /\ pc = "raised"
    /\ request.op = "store_authentic_data"
    /\ Len(request.data_items) = 2
    /\ session.commits = 1
    /\ db_rows # <<>>

\* the returned item is the stored item with the key id: it holds what was
\* stored in the five columns, and its quality_score is not null
ReturnedAsStored(item, stored) ==
    /\ item.id \in 1..Len(stored)
    /\ PersistedAs(item, stored[item.id])
    /\ ~IsNull(item, "quality_score")

\* what C26 states of the items returned for a call, apart from the category
HighQualityNewestFirst(items, call, stored) ==
    /\ Len(items) <= call.limit
    /\ \A k \in 1..Len(items) :
           /\ ReturnedAsStored(items[k], stored)
           /\ items[k].quality_score >= call.min_quality_score
    /\ \A k, m \in 1..Len(items) :
           k < m => /\ items[k].id # items[m].id
                    /\ items[k].timestamp >= items[m].timestamp

\* every item is of the category
AllOfCategory(items, category) ==
    \A k \in 1..Len(items) :
        ~IsNull(items[k], "category") /\ items[k].category = category

RECURSIVE ScoresOf(_)
ScoresOf(items) ==
    IF items = <<>> THEN <<>>
    ELSE (IF "quality_score" \in DOMAIN Head(items)
          THEN <<Head(items).quality_score>> ELSE <<>>)
         \o ScoresOf(Tail(items))

\* average is the arithmetic mean of the scores, 0 when there are none
IsMeanOf(average, scores) ==
    IF scores = <<>> THEN average = 0
    ELSE average * Len(scores) = SumSeq(scores)

\* C27: after any calls of store_authentic_data that returned on a fresh
\* database, get_statistics reports as total_items the number of items
\* stored so far and as average_quality_score the arithmetic mean of their
\* non-null quality scores, 0.0 when there are none
C27_StatisticsOfStored ==
    pc = "counted" =>
        /\ response.total_items = Len(Flat(calls))
        /\ IsMeanOf(response.average_quality_score, ScoresOf(Flat(calls)))

\* enhancing the text again gave the text back and recorded no change
GivesBack(result, text) ==
    result.enhanced_text = text /\ result.changes_made = <<>>

\* the text holds the completed form of an entry of the phrase table
HoldsCompletedPhrase(text) ==
    \E e \in 1..Len(common_phrases) : Contains(text, common_phrases[e][2])

\* the items with a text that holds a completed phrase
AlreadyCompleted(items) ==
    {i \in 1..Len(items) :
        HasText(items[i]) /\ HoldsCompletedPhrase(items[i].text)}

\* C28: enhancing the enhanced_text of enhance_amharic_text again returns
\* the same text and records no change, so a batch with enhance_quality =
\* true leaves the texts that already hold a completed phrase as they were
\* and, when it holds no other text, has enhanced_count 0
C28_EnhancementIdempotent ==
    /\ Returned("enhance_amharic_text") =>
           GivesBack(enhance_amharic_text(response.enhanced_text, "general"),
                     response.enhanced_text)
    /\ (Returned("batch_process_dataset") /\ request.enhance_quality) =>
           /\ \A i \in AlreadyCompleted(request.input_data) :
                  input_data[i].text = request.input_data[i].text
           /\ TextCount(request.input_data)
                  = Cardinality(AlreadyCompleted(request.input_data))
                  => response.statistics.enhanced_count = 0

\* the items of the call whose text the batch left different from the text
\* that was passed in
Altered(given, left) ==
    {i \in 1..Len(given) : HasText(given[i]) /\ left[i].text # given[i].text}

\* C29: the changes_made of enhance_amharic_text is empty exactly when
\* enhanced_text equals the original text (an identity entry of the
\* replacement table records no change), and the enhanced_count of a batch
\* is the number of items with a text whose text was altered
C29_ChangesIffAltered ==
    /\ Returned("enhance_amharic_text") =>
           ((response.changes_made = <<>>)
                <=> (response.enhanced_text = request.text))
    /\ Returned("batch_process_dataset") =>
           response.statistics.enhanced_count
               = Cardinality(Altered(request.input_data, input_data))

\* a batch enhanced one text and left alone a text that holds an identity
\* entry of the replacement table
C29_Witness ==
    /\ Returned("batch_process_dataset")
    /\ request.enhance_quality
    /\ response.statistics.enhanced_count = 1
    /\ \E i \in 1..Len(input_data) :
           /\ request.input_data[i] = [text |-> IdentityEntry]
           /\ input_data[i].text = IdentityEntry
           /\ input_data[i].rag_changes = <<>>

\* the text has content besides whitespace
NonBlank(text) == Strip(text) # <<>>

\* the text ends, after stripping whitespace, in one of the three terminators
EndsInTerminator(text) == NonBlank(text) /\ IsTerminator(Last(Strip(text)))

\* some record of the list has the type
HasType(records, type) == \E k \in DOMAIN records : records[k].type = type

\* C30: for a text with non-blank content the enhanced_text of
\* enhance_amharic_text ends, after stripping whitespace, in one of the
\* three sentence terminators, and a 'punctuation' change is recorded only
\* if identify_quality_issues reported a punctuation issue for the original
\* text; a blank text is returned unchanged with no changes
C30_EndsTerminated ==
    Returned("enhance_amharic_text") =>
        IF NonBlank(request.text)
        THEN /\ EndsInTerminator(response.enhanced_text)
             /\ HasType(response.changes_made, "punctuation")
                    => HasType(identify_quality_issues(request.text),
                               "punctuation")
        ELSE /\ response.enhanced_text = request.text
             /\ response.changes_made = <<>>

\* a text without a terminator was changed by the replacement pass and then
\* got its terminator
C30_Witness ==
    /\ Returned("enhance_amharic_text")
    /\ NonBlank(request.text)
    /\ ~EndsInTerminator(request.text)
    /\ HasType(response.changes_made, "punctuation")
    /\ HasType(response.changes_made, "authenticity_enhancement")

=============================================================================
